---- MODULE Spec2Model ----
(***************************************************************************)
(* Model of the PaperBanana web backend (src/web/app.py): the SSE          *)
(* generation endpoint (generate / generate.stream), the credential        *)
(* resolution, and the image URL / image serving pair.                     *)
(*                                                                         *)
(* One asyncio event loop runs, per request, the response generator        *)
(* stream() and the background pipeline task.  A step of the model is what *)
(* one of them does between two suspension points (a yield, the await on   *)
(* asyncio.wait_for, the pipeline's own awaits).                           *)
(***************************************************************************)
EXTENDS Integers, Sequences, FiniteSets, TLC

\* ------------------------------------------------------------------ bounds
MaxIterations == 2      \* largest req.iterations a client sends
MaxKeepalives == 1      \* keepalive frames a stream may emit before the cap
MaxPathLen == 5         \* most parts of a path handed to the image functions
MaxTextLen == 3         \* most characters of a payload text handed to _sse
PairIterations == 1     \* largest req.iterations when two clients send at once

\* Two clients, so that requests can overlap.
Reqs == {"a", "b"}

\* --------------------------------------------------------------- pathlib
\* A path is the tuple pathlib calls .parts; an absolute path starts with "/".
Cwd == <<"/", "app">>

IsAbs(p) == Len(p) > 0 /\ p[1] = "/"

\* Path.__truediv__: an absolute right operand replaces the left one.
Join(a, b) == IF IsAbs(b) THEN b ELSE a \o b

IsPrefix(b, p) == Len(b) <= Len(p) /\ SubSeq(p, 1, Len(b)) = b

\* PurePath.relative_to: defined only when base is a leading part of p;
\* otherwise it raises ValueError (ok = FALSE).
RelativeTo(p, base) ==
    IF IsPrefix(base, p)
    THEN [ok |-> TRUE, rel |-> SubSeq(p, Len(base) + 1, Len(p))]
    ELSE [ok |-> FALSE, rel |-> <<>>]

\* Path.name: the last part.
Name(p) == IF Len(p) = 0 THEN "" ELSE p[Len(p)]

\* -------------------------------------------------------------- the disk
RunDir(r) == IF r = "a" THEN "run_a" ELSE "run_b"

\* The names of the files a run writes: one image per iteration and the
\* final image.
IterName(i) ==
    CASE i = 1 -> "diagram_iter_1.png"
      [] i = 2 -> "diagram_iter_2.png"
      [] i = 3 -> "diagram_iter_3.png"
      [] OTHER -> "diagram_iter_n.png"

FinalName == "final_output.JPG"

FileNames == {IterName(i) : i \in 1..MaxIterations} \cup {FinalName}

\* The output directory Settings() gives every pipeline of the process:
\* "outputs" relative to the working directory (the default), the same
\* directory given absolute, a directory that is not under outputs/, and a
\* directory whose files are gone by the time they are looked for.
OutputDirs ==
    { <<"outputs">>,
      <<"/", "app", "outputs">>,
      <<"/", "data">>,
      <<"outputs", "unsaved">> }

\* The files on disk, as absolute paths.  Every run writes files of the same
\* names; the .env file load_dotenv() reads lies in the working directory.
Files ==
    {<<"/", "app", "outputs", RunDir(r), n>> : r \in Reqs, n \in FileNames} \cup
    {<<"/", "data", RunDir(r), n>> : r \in Reqs, n \in FileNames} \cup
    {<<"/", "app", ".env">>}

\* The directories on disk: the root and whatever contains a file.
Dirs == UNION {{SubSeq(f, 1, n) : n \in 1..(Len(f) - 1)} : f \in Files}

\* Where the operating system arrives when it walks the parts of a path
\* from acc: ".." goes to the parent of a directory, and going through
\* something that is not a directory fails (Unresolved).
Unresolved == <<>>

RECURSIVE Normalize(_, _)
Normalize(p, acc) ==
    IF p = <<>> THEN acc
    ELSE IF acc \notin Dirs THEN Unresolved
    ELSE IF Head(p) = ".." THEN
            Normalize(Tail(p), IF Len(acc) > 1 THEN SubSeq(acc, 1, Len(acc) - 1) ELSE acc)
    ELSE Normalize(Tail(p), Append(acc, Head(p)))

\* The file or directory a path names for a process whose working
\* directory is Cwd.
Resolve(p) == Normalize(Tail(Join(Cwd, p)), <<"/">>)

\* The bytes of a file: each file has its own content.
Bytes(f) == f

\* Path.exists(): a file or a directory is there.
Exists(p) == Resolve(p) \in Files \cup Dirs

\* ------------------------------------------------- image URLs and serving
\* None, for a value that is a URL (a tuple of parts) or None.
NoUrl == <<>>

ImagesRoute == "/api/images"

\* _to_image_url: None when the file is missing, else "/api/images/" + the
\* path relative to <cwd>/outputs, else relative to "outputs", else its name.
ToImageUrl(image_path) ==
    IF ~Exists(image_path) THEN NoUrl
    ELSE LET abs_rel == RelativeTo(image_path, Join(Cwd, <<"outputs">>))
             rel_rel == RelativeTo(image_path, <<"outputs">>)
             rel == IF abs_rel.ok THEN abs_rel.rel
                    ELSE IF rel_rel.ok THEN rel_rel.rel
                    ELSE <<Name(image_path)>>
         IN  <<ImagesRoute>> \o rel

\* The {path:path} parameter the route "/api/images/{path:path}" captures.
RoutePath(url) == Tail(url)

\* Path.suffix of the file names on the disk ("" when there is no dot).
Suffix(name) ==
    CASE name \in {IterName(i) : i \in 1..(MaxIterations + 1)} -> ".png"
      [] name = FinalName -> ".JPG"
      [] OTHER            -> ""

\* str.lower() then str.lstrip(".") on a suffix.
LowerExt(sfx) ==
    CASE sfx = ".png" -> "png"
      [] sfx = ".JPG" -> "jpg"
      [] sfx = ".jpg" -> "jpg"
      [] OTHER        -> ""

\* media.get(ext, "image/png")
MediaType(ext) ==
    CASE ext = "png"  -> "image/png"
      [] ext = "jpg"  -> "image/jpeg"
      [] ext = "jpeg" -> "image/jpeg"
      [] ext = "webp" -> "image/webp"
      [] OTHER        -> "image/png"

\* serve_image without the existence test: whatever is at outputs/<path>
\* goes to FileResponse.
ServeImageNoCheck(path) ==
    LET fp == Join(<<"outputs">>, path) IN
    IF Resolve(fp) \notin Files
    THEN [status |-> 500, file |-> <<>>, media |-> "text/plain",
          error |-> "Internal Server Error"]
    ELSE [status |-> 200, file |-> Resolve(fp),
          media |-> MediaType(LowerExt(Suffix(Name(fp)))), error |-> ""]

\* serve_image: 404 with a JSON error when outputs/<path> does not exist,
\* else the file itself with the media type of its extension.  FileResponse
\* on a directory fails before the response starts: 500.
ServeImage(path) ==
    LET fp == Join(<<"outputs">>, path) IN
    IF ~Exists(fp)
    THEN [status |-> 404, file |-> <<>>, media |-> "application/json",
          error |-> "Image not found"]
    ELSE IF Resolve(fp) \in Dirs
    THEN [status |-> 500, file |-> <<>>, media |-> "text/plain",
          error |-> "Internal Server Error"]
    ELSE [status |-> 200, file |-> Resolve(fp),
          media |-> MediaType(LowerExt(Suffix(Name(fp)))), error |-> ""]

\* A client's GET on an emitted URL.
Get(url) == ServeImage(RoutePath(url))

\* ------------------------------------------------------------ credentials
\* Python's None for a str | None value, and the strings the model uses.
None == "<None>"
HeaderKeys(r) == {None, "", IF r = "a" THEN "hdr_a" ELSE "hdr_b"}
EnvKeys == {None, "", "env_key"}

\* Truth value of a str | None.
Truthy(k) == k /= None /\ k /= ""

\* _resolve_api_key: the header value if truthy, else os.environ.get(...).
ResolveApiKey(header_key, environ) ==
    IF Truthy(header_key) THEN header_key ELSE environ

\* ------------------------------------------------------------ the request
\* DiagramType's values; "bogus" is a string the enum does not have.
DiagramTypes == {"methodology", "statistical_plot"}
RequestedTypes == {"methodology", "bogus"}

\* ---------------------------------------------------------------- state
VARIABLES
    environ,    \* os.environ.get("GOOGLE_API_KEY"), process wide
    output_dir, \* the output directory of the process's Settings
    req,        \* req[r]: the request client r sends (x_api_key header,
                \* diagram_type, iterations), NoRequest if it sends none
    http,       \* http[r]: status of the HTTP response, 0 while none was sent
    api_key,    \* api_key[r]: the credential generate() resolved
    pc,         \* pc[r]: where generate()/stream() of request r stands
    pipeline,   \* pipeline[r]: the run directory of the PaperBananaPipeline object
                \* constructed for r, NoPipeline until then
    task,       \* task[r]: the background task ("none" until create_task)
    pushed,     \* pushed[r]: number of on_iteration callbacks made so far
    queue,      \* queue[r]: the asyncio.Queue of stream()
    record,     \* record[r]: stream()'s local variable record
    events,     \* events[r]: the frames the response body carried so far
    probe       \* the last call of a client or a test on the image endpoint,
                \* on _to_image_url or on _sse, with what it returned

vars == <<probe, environ, output_dir, req, http, api_key, pc, pipeline, task, pushed, queue, record, events>>

NoRequest == [header |-> None, diagram_type |-> "", iterations |-> 0]
NoRecord == [iteration |-> 0, image_path |-> <<>>]
NoPipeline == <<>>
NoProbe == [op |-> "none", arg |-> <<>>, out |-> <<>>]

\* The positions of stream() at which it is suspended in a yield.
YieldPcs == {"y_init", "y_plan", "y_status", "y_iter", "y_keepalive", "y_complete", "y_error"}

\* task.done()
Done(r) == task[r] \in {"returned", "raised"}

\* _sse(event, data) as the frame the client parses; a keepalive is the
\* comment frame ": keepalive".
Sse(event, message, iteration, url, total) ==
    [kind |-> event, message |-> message, iteration |-> iteration,
     image_url |-> url, total_iterations |-> total]

Keepalive == [kind |-> "keepalive", message |-> "", iteration |-> 0,
              image_url |-> NoUrl, total_iterations |-> 0]

Emit(r, frame) == events' = [events EXCEPT ![r] = Append(@, frame)]

\* ------------------------------------------------------- frames on the wire
\* A text is a tuple of characters; these are the ones JSON has to escape,
\* and a plain one.
NL == "\n"
QUOTE == "\""
BSLASH == "\\"
Chars == {"a", NL, QUOTE, BSLASH}

\* The texts of at most n characters.
Texts(n) == UNION {[1..k -> Chars] : k \in 0..n}

\* json.dumps of a str without the quotes around it, with no escaping at all.
EscapeNothing(text) == text

\* json.dumps of a str without the quotes around it: newline, quote and
\* backslash are written as two-character escapes.
RECURSIVE Escape(_)
Escape(text) ==
    IF text = <<>> THEN <<>>
    ELSE (CASE Head(text) = NL     -> <<BSLASH, "n">>
            [] Head(text) = QUOTE  -> <<BSLASH, QUOTE>>
            [] Head(text) = BSLASH -> <<BSLASH, BSLASH>>
            [] OTHER               -> <<Head(text)>>) \o Escape(Tail(text))

\* json.dumps({"message": text})
JsonDumps(text) ==
    <<"{", QUOTE, "message", QUOTE, ":", " ", QUOTE>> \o Escape(text) \o <<QUOTE, "}">>

\* _sse(event, {"message": text}) character by character:
\* "event: <event>\ndata: <json>\n\n".
SseFrame(event, text) ==
    <<"event: ", event, NL, "data: ">> \o JsonDumps(text) \o <<NL, NL>>

\* The keepalive comment ": keepalive\n\n".
KeepaliveFrame == <<": keepalive", NL, NL>>

\* The event names stream() passes to _sse.
EventKinds == {"status", "iteration", "complete", "error"}

\* The keys of the payload dict stream() builds for each event.
PayloadKeys(event) ==
    CASE event = "status"    -> {"message"}
      [] event = "iteration" -> {"iteration", "image_url", "description", "critique"}
      [] event = "complete"  -> {"message", "final_image_url", "total_iterations"}
      [] event = "error"     -> {"message"}
      [] OTHER               -> {}

KeepalivesOf(r) == Cardinality({i \in 1..Len(events[r]) : events[r][i].kind = "keepalive"})

\* The requests client r may send.
Requests(r, maxn) ==
    [header : HeaderKeys(r), diagram_type : RequestedTypes, iterations : 1..maxn]

\* The process after startup, before any request is handled.
Started ==
    /\ environ \in EnvKeys
    /\ output_dir \in OutputDirs
    /\ http = [r \in Reqs |-> 0]
    /\ api_key = [r \in Reqs |-> None]
    /\ pc = [r \in Reqs |-> "idle"]
    /\ pipeline = [r \in Reqs |-> NoPipeline]
    /\ task = [r \in Reqs |-> "none"]
    /\ pushed = [r \in Reqs |-> 0]
    /\ queue = [r \in Reqs |-> <<>>]
    /\ record = [r \in Reqs |-> NoRecord]
    /\ events = [r \in Reqs |-> <<>>]
    /\ probe = NoProbe

\* One client sends a request.
Init ==
    /\ Started
    /\ \E q \in Requests("a", MaxIterations) :
            req = [r \in Reqs |-> IF r = "a" THEN q ELSE NoRequest]

\* Both clients send a request.
InitPair ==
    /\ Started
    /\ req \in [Reqs -> UNION {Requests(r, PairIterations) : r \in Reqs}]
    /\ \A r \in Reqs : req[r] \in Requests(r, PairIterations)

\* ------------------------------------------------------------- generate()
\* generate() testing "api_key is None" where the code tests "not api_key".
GenerateNoneOnly(r) ==
    /\ pc[r] = "idle"
    /\ req[r] /= NoRequest
    /\ api_key' = [api_key EXCEPT ![r] = ResolveApiKey(req[r].header, environ)]
    /\ IF ResolveApiKey(req[r].header, environ) = None
       THEN /\ http' = [http EXCEPT ![r] = 401]
            /\ pc' = [pc EXCEPT ![r] = "rejected"]
       ELSE /\ http' = [http EXCEPT ![r] = 200]
            /\ pc' = [pc EXCEPT ![r] = "start"]
    /\ UNCHANGED <<probe, environ, output_dir, req, pipeline, task, pushed, queue, record, events>>

\* POST /api/generate arrives: resolve the credential; without one, answer
\* 401 and return; with one, return the StreamingResponse over stream().
Generate(r) ==
    /\ pc[r] = "idle"
    /\ req[r] /= NoRequest
    /\ api_key' = [api_key EXCEPT ![r] = ResolveApiKey(req[r].header, environ)]
    /\ IF ~Truthy(ResolveApiKey(req[r].header, environ))
       THEN /\ http' = [http EXCEPT ![r] = 401]
            /\ pc' = [pc EXCEPT ![r] = "rejected"]
       ELSE /\ http' = [http EXCEPT ![r] = 200]
            /\ pc' = [pc EXCEPT ![r] = "start"]
    /\ UNCHANGED <<probe, environ, output_dir, req, pipeline, task, pushed, queue, record, events>>

\* stream() starting without its first status yield.
StreamInitSilent(r) ==
    /\ pc[r] = "start"
    /\ pc' = [pc EXCEPT ![r] = "y_init"]
    /\ UNCHANGED <<probe, environ, output_dir, req, http, api_key, pipeline, task, pushed, queue, record, events>>

\* stream() up to its first yield: the "Initializing pipeline..." status.
StreamInit(r) ==
    /\ pc[r] = "start"
    /\ Emit(r, Sse("status", "Initializing pipeline...", 0, NoUrl, 0))
    /\ pc' = [pc EXCEPT ![r] = "y_init"]
    /\ UNCHANGED <<probe, environ, output_dir, req, http, api_key, pipeline, task, pushed, queue, record>>

\* From the first yield to the second: set the process credential, build
\* the pipeline, build the input (DiagramType(...) raises ValueError on an
\* unknown value, caught by the except clause), create the task, yield the
\* planning status.
StreamSetup(r) ==
    /\ pc[r] = "y_init"
    /\ environ' = api_key[r]
    /\ pipeline' = [pipeline EXCEPT ![r] = Join(output_dir, <<RunDir(r)>>)]
    /\ IF req[r].diagram_type \in DiagramTypes
       THEN /\ task' = [task EXCEPT ![r] = "running"]
            /\ Emit(r, Sse("status", "Planning diagram (this may take a minute)...", 0, NoUrl, 0))
            /\ pc' = [pc EXCEPT ![r] = "y_plan"]
       ELSE /\ task' = task
            /\ Emit(r, Sse("error", "ValueError", 0, NoUrl, 0))
            /\ pc' = [pc EXCEPT ![r] = "y_error"]
    /\ UNCHANGED <<probe, output_dir, req, http, api_key, pushed, queue, record>>

\* AwaitTask reporting the requested budget as total_iterations.
AwaitTaskBudget(r) ==
    IF task[r] = "returned"
    THEN /\ Emit(r, Sse("complete", "Generation complete!", 0,
                        ToImageUrl(Join(pipeline[r], <<FinalName>>)), req[r].iterations))
         /\ pc' = [pc EXCEPT ![r] = "y_complete"]
    ELSE /\ Emit(r, Sse("error", "pipeline failed", 0, NoUrl, 0))
         /\ pc' = [pc EXCEPT ![r] = "y_error"]

\* Lines 193-205, reached with the task finished: "result = await task"
\* returns the result or re-raises the task's exception into the except
\* clause; one complete or one error frame is yielded.
AwaitTask(r) ==
    IF task[r] = "returned"
    THEN /\ Emit(r, Sse("complete", "Generation complete!", 0,
                        ToImageUrl(Join(pipeline[r], <<FinalName>>)), pushed[r]))
         /\ pc' = [pc EXCEPT ![r] = "y_complete"]
    ELSE /\ Emit(r, Sse("error", "pipeline failed", 0, NoUrl, 0))
         /\ pc' = [pc EXCEPT ![r] = "y_error"]

\* The while condition of line 163.
LoopCondition(r) == ~Done(r) \/ queue[r] /= <<>>

\* The timeout branch without its break.
BreakNever(r) == FALSE

\* The test of the except asyncio.TimeoutError branch, line 167.
BreakOnTimeout(r) == Done(r)

\* Resumed after a yield inside or before the loop: test the while
\* condition; enter asyncio.wait_for(queue.get(), 5.0), or leave the loop.
LoopTest(r) ==
    /\ pc[r] \in {"y_plan", "y_iter", "y_keepalive"}
    /\ IF LoopCondition(r)
       THEN /\ pc' = [pc EXCEPT ![r] = "waiting"]
            /\ events' = events
       ELSE AwaitTask(r)
    /\ UNCHANGED <<probe, environ, output_dir, req, http, api_key, pipeline, task, pushed, queue, record>>

\* GetRecord without the status yield.
GetRecordNoStatus(r) ==
    /\ pc[r] = "waiting"
    /\ queue[r] /= <<>>
    /\ record' = [record EXCEPT ![r] = Head(queue[r])]
    /\ queue' = [queue EXCEPT ![r] = Tail(@)]
    /\ pc' = [pc EXCEPT ![r] = "y_status"]
    /\ UNCHANGED <<probe, environ, output_dir, req, http, api_key, pipeline, task, pushed, events>>

\* queue.get() delivers the oldest record; the "Completed iteration i/N"
\* status is yielded.
GetRecord(r) ==
    /\ pc[r] = "waiting"
    /\ queue[r] /= <<>>
    /\ record' = [record EXCEPT ![r] = Head(queue[r])]
    /\ queue' = [queue EXCEPT ![r] = Tail(@)]
    /\ Emit(r, Sse("status", "Completed iteration", Head(queue[r]).iteration, NoUrl,
                   req[r].iterations))
    /\ pc' = [pc EXCEPT ![r] = "y_status"]
    /\ UNCHANGED <<probe, environ, output_dir, req, http, api_key, pipeline, task, pushed>>

\* The 5 second timer of wait_for expires while queue.get() is still
\* pending: the get is cancelled and stream() is scheduled to resume with
\* TimeoutError.  It resumes in a later callback of the event loop.
Timeout(r) ==
    /\ pc[r] = "waiting"
    /\ queue[r] = <<>>
    /\ Done(r) \/ KeepalivesOf(r) < MaxKeepalives
    /\ pc' = [pc EXCEPT ![r] = "timedout"]
    /\ UNCHANGED <<probe, environ, output_dir, req, http, api_key, pipeline, task, pushed, queue, record, events>>

\* stream() resumes in the except asyncio.TimeoutError branch: break when
\* the task is done, else yield a keepalive and continue.
AfterTimeout(r) ==
    /\ pc[r] = "timedout"
    /\ IF BreakOnTimeout(r)
       THEN AwaitTask(r)
       ELSE /\ Emit(r, Keepalive)
            /\ pc' = [pc EXCEPT ![r] = "y_keepalive"]
    /\ UNCHANGED <<probe, environ, output_dir, req, http, api_key, pipeline, task, pushed, queue, record>>

\* EmitIteration with the exception handled inside the loop: the error frame
\* is yielded and the loop goes on.
EmitIterationContinues(r) ==
    /\ pc[r] = "y_status"
    /\ \/ Emit(r, Sse("iteration", "", record[r].iteration,
                       ToImageUrl(record[r].image_path), 0))
       \/ Emit(r, Sse("error", "TypeError", 0, NoUrl, 0))
    /\ pc' = [pc EXCEPT ![r] = "y_iter"]
    /\ UNCHANGED <<probe, environ, output_dir, req, http, api_key, pipeline, task, pushed, queue, record>>

\* Resumed after the status yield: compute the URL and yield the iteration
\* frame.  A record whose fields are not of the expected types makes
\* record.description[:500] or json.dumps raise; the except clause turns
\* that into the error frame.
EmitIteration(r) ==
    /\ pc[r] = "y_status"
    /\ \/ /\ Emit(r, Sse("iteration", "", record[r].iteration,
                           ToImageUrl(record[r].image_path), 0))
          /\ pc' = [pc EXCEPT ![r] = "y_iter"]
       \/ /\ Emit(r, Sse("error", "TypeError", 0, NoUrl, 0))
          /\ pc' = [pc EXCEPT ![r] = "y_error"]
    /\ UNCHANGED <<probe, environ, output_dir, req, http, api_key, pipeline, task, pushed, queue, record>>

\* Resumed after the complete or the error yield: the generator returns.
StreamEnd(r) ==
    /\ pc[r] \in {"y_complete", "y_error"}
    /\ pc' = [pc EXCEPT ![r] = "done"]
    /\ UNCHANGED <<probe, environ, output_dir, req, http, api_key, pipeline, task, pushed, queue, record, events>>

\* A teardown that also cancels the background task.
DisconnectCancels(r) ==
    /\ pc[r] \in YieldPcs \cup {"waiting", "timedout"}
    /\ pc' = [pc EXCEPT ![r] = "closed"]
    /\ task' = [task EXCEPT ![r] = IF @ = "running" THEN "raised" ELSE @]
    /\ UNCHANGED <<probe, environ, output_dir, req, http, api_key, pipeline, pushed, queue, record, events>>

\* The client goes away: the generator is closed at the point where it is
\* suspended (GeneratorExit / CancelledError are not Exception, so the
\* except clause does not run).  The task is left alone.
Disconnect(r) ==
    /\ pc[r] \in YieldPcs \cup {"waiting", "timedout"}
    /\ pc' = [pc EXCEPT ![r] = "closed"]
    /\ UNCHANGED <<probe, environ, output_dir, req, http, api_key, pipeline, task, pushed, queue, record, events>>

\* ------------------------------------------------- the background pipeline
\* pipeline.generate() finishes one refinement step and awaits
\* on_iteration(record): queue.put(record) on the unbounded queue.
OnIteration(r) ==
    /\ task[r] = "running"
    /\ pushed[r] < req[r].iterations
    /\ queue' = [queue EXCEPT ![r] =
                    Append(@, [iteration |-> pushed[r] + 1,
                               image_path |-> Join(pipeline[r], <<IterName(pushed[r] + 1)>>)])]
    /\ pushed' = [pushed EXCEPT ![r] = @ + 1]
    /\ UNCHANGED <<probe, environ, output_dir, req, http, api_key, pc, pipeline, task, record, events>>

\* pipeline.generate() returns its GenerationOutput.
TaskReturn(r) ==
    /\ task[r] = "running"
    /\ task' = [task EXCEPT ![r] = "returned"]
    /\ UNCHANGED <<probe, environ, output_dir, req, http, api_key, pc, pipeline, pushed, queue, record, events>>

\* pipeline.generate() raises.
TaskRaise(r) ==
    /\ task[r] = "running"
    /\ task' = [task EXCEPT ![r] = "raised"]
    /\ UNCHANGED <<probe, environ, output_dir, req, http, api_key, pc, pipeline, pushed, queue, record, events>>

Next ==
    \E r \in Reqs :
        \/ Generate(r)
        \/ StreamInit(r)
        \/ StreamSetup(r)
        \/ LoopTest(r)
        \/ GetRecord(r)
        \/ Timeout(r)
        \/ AfterTimeout(r)
        \/ EmitIteration(r)
        \/ StreamEnd(r)
        \/ Disconnect(r)
        \/ OnIteration(r)
        \/ TaskReturn(r)
        \/ TaskRaise(r)

Spec == Init /\ [][Next]_vars

\* ------------------------------------------- the functions, called directly
\* The parts a path handed to the image functions is made of.
PathParts == {"/", "..", "app", "outputs", "run_a", ".env", IterName(1)}

\* The paths of at most n parts; "/" can only be the first part.
Paths(n) ==
    {p \in UNION {[1..k -> PathParts] : k \in 1..n} :
        \A i \in 2..Len(p) : p[i] /= "/"}

\* Each behaviour of SpecFn is one call, made on the process as started.
\* GET /api/images/<path>
GetImage ==
    /\ probe = NoProbe
    /\ \E path \in Paths(MaxPathLen) :
         probe' = [op |-> "image", arg |-> path, out |-> ServeImage(path)]
    /\ UNCHANGED <<environ, output_dir, req, http, api_key, pc, pipeline, task, pushed,
                   queue, record, events>>

\* _to_image_url(image_path)
ImageUrlOf ==
    /\ probe = NoProbe
    /\ \E image_path \in Paths(MaxPathLen) :
         probe' = [op |-> "url", arg |-> image_path, out |-> ToImageUrl(image_path)]
    /\ UNCHANGED <<environ, output_dir, req, http, api_key, pc, pipeline, task, pushed,
                   queue, record, events>>

\* _sse(event, {"message": text})
Encode ==
    /\ probe = NoProbe
    /\ \E event \in EventKinds, text \in Texts(MaxTextLen) :
         probe' = [op |-> "sse", arg |-> <<event, text>>, out |-> SseFrame(event, text)]
    /\ UNCHANGED <<environ, output_dir, req, http, api_key, pc, pipeline, task, pushed,
                   queue, record, events>>

\* The process with no generate request in it.
InitFn ==
    /\ Started
    /\ environ = None
    /\ output_dir = <<"outputs">>
    /\ req = [r \in Reqs |-> NoRequest]

NextFn == GetImage \/ ImageUrlOf \/ Encode

SpecFn == InitFn /\ [][NextFn]_vars

SpecPair == InitPair /\ [][Next]_vars

TypeOK ==
    /\ environ \in EnvKeys \cup UNION {HeaderKeys(r) : r \in Reqs}
    /\ \A r \in Reqs :
         /\ http[r] \in {0, 200, 401}
         /\ task[r] \in {"none", "running", "returned", "raised"}
         /\ pushed[r] \in 0..MaxIterations
         /\ Len(queue[r]) <= MaxIterations

\* ============================================================ properties
\* Helpers over the frames of a stream.
Last(q) == q[Len(q)]

IsTerminal(e) == e.kind \in {"complete", "error"}

\* The frames of r without the keepalive comments.
Semantic(r) == SelectSeq(events[r], LAMBDA e : e.kind /= "keepalive")

\* The iteration numbers of the iteration frames of r, in stream order.
IterationNumbers(r) ==
    LET its == SelectSeq(events[r], LAMBDA e : e.kind = "iteration")
    IN  [i \in 1..Len(its) |-> its[i].iteration]

\* <<kind, iteration>> of every frame that is not a keepalive.
Shape(r) == [i \in 1..Len(Semantic(r)) |-> <<Semantic(r)[i].kind, Semantic(r)[i].iteration>>]

\* The stream of r ended through "result = await task": its last frame is
\* the complete frame or the error frame of the task's exception.
EndedByTask(r) ==
    /\ events[r] /= <<>>
    /\ \/ Last(events[r]).kind = "complete"
       \/ Last(events[r]).kind = "error" /\ Last(events[r]).message = "pipeline failed"

\* C1: a stream carries at most one terminal frame (complete or error) and
\* no frame of any kind (status, iteration, keepalive) after it, in every
\* interleaving of the task and the streaming loop.
C1_OneTerminalLast ==
    \A r \in Reqs : \A i \in 1..Len(events[r]) :
        IsTerminal(events[r][i]) => i = Len(events[r])

\* A stream that emitted iterations and ended, one with complete and the
\* generator returned.
C1_Witness ==
    \E r \in Reqs :
        /\ pc[r] = "done"
        /\ Last(events[r]).kind = "complete"
        /\ Len(IterationNumbers(r)) = 2
        /\ KeepalivesOf(r) > 0

\* C2: when the loop has been left and the terminal frame of the task's
\* outcome is out, the task is finished and the queue is empty: every record
\* put on the queue was emitted as an iteration frame before.
C2_LoopExitsDrained ==
    \A r \in Reqs :
        EndedByTask(r) => Done(r) /\ queue[r] = <<>>

\* C3: when the pipeline called back 1..N and completed, the iteration
\* frames carry exactly 1..N, in that order, each once.
C3_IterationsInOrderOnce ==
    \A r \in Reqs :
        (events[r] /= <<>> /\ Last(events[r]).kind = "complete")
            => IterationNumbers(r) = [i \in 1..pushed[r] |-> i]

\* C4: when the task raised after k records, the stream carries the
\* iteration frames of exactly those k records, then one error frame with
\* the exception's message, and no complete frame.
C4_RaiseKeepsPushedRecords ==
    \A r \in Reqs :
        (task[r] = "raised" /\ pc[r] = "done" /\ EndedByTask(r))
            => /\ IterationNumbers(r) = [i \in 1..pushed[r] |-> i]
               /\ Last(events[r]).kind = "error"
               /\ Last(events[r]).message = "pipeline failed"
               /\ \A i \in 1..Len(events[r]) : events[r][i].kind /= "complete"

\* The scenario of C5: iterations = 2, both callbacks made, the task
\* returned, and the stream ran to its end with the complete frame.
C5_Scenario(r) ==
    /\ req[r].iterations = 2
    /\ pushed[r] = 2
    /\ task[r] = "returned"
    /\ pc[r] = "done"
    /\ Last(events[r]).kind = "complete"

RECURSIVE Pairs(_)
Pairs(m) ==
    IF m = 0 THEN <<>>
    ELSE Pairs(m - 1) \o << <<"status", m>>, <<"iteration", m>> >>

C6_NoCredentialNoEffect ==
    [][\A r \in Reqs :
         /\ (pc[r] = "idle" /\ pc'[r] /= "idle"
                /\ ~Truthy(req[r].header) /\ ~Truthy(environ))
              => /\ pc'[r] = "rejected"
                 /\ http'[r] = 401
                 /\ UNCHANGED <<environ, pipeline, task, pushed, queue, events>>
         /\ pc[r] = "rejected"
              => /\ pc'[r] = "rejected"
                 /\ http'[r] = 401
                 /\ events'[r] = <<>>
                 /\ pipeline'[r] = NoPipeline
                 /\ task'[r] = "none"
                 /\ queue'[r] = <<>>]_vars

\* A request with an empty header was rejected while the fallback is empty.
C6_Witness ==
    \E r \in Reqs :
        /\ pc[r] = "rejected"
        /\ http[r] = 401
        /\ req[r].header = ""
        /\ environ = ""

\* C7: the credential resolved for a request that supplies none is never
\* the header credential of another request: handling requests leaves the
\* process-wide fallback as it was.
C7_HeaderKeyNotPersisted ==
    [][\A r \in Reqs :
         (pc[r] = "idle" /\ pc'[r] /= "idle" /\ ~Truthy(req[r].header))
            => \A o \in Reqs \ {r} :
                 Truthy(req[o].header) => api_key'[r] /= req[o].header]_vars

\* C8: a request whose diagram_type is not a supported kind is answered 422
\* before anything else happens: no frame on a stream, no pipeline object,
\* no task.
C8_BadDiagramTypeIs422 ==
    \A r \in Reqs :
        (pc[r] /= "idle" /\ req[r].diagram_type \notin DiagramTypes)
            => /\ http[r] = 422
               /\ events[r] = <<>>
               /\ pipeline[r] = NoPipeline
               /\ task[r] = "none"

\* The image_path the pipeline of r reported for the record or the result a
\* frame was made from.
ReportedPath(r, e) ==
    IF e.kind = "iteration"
    THEN Join(pipeline[r], <<IterName(e.iteration)>>)
    ELSE Join(pipeline[r], <<FinalName>>)

\* The content type the extension of a file on disk calls for.
MediaOfFile(name) == IF name = FinalName THEN "image/jpeg" ELSE "image/png"

\* The iteration and complete frames of r that carry a URL, as positions.
UrlFrames(r) ==
    {i \in 1..Len(events[r]) :
        /\ events[r][i].kind \in {"iteration", "complete"}
        /\ events[r][i].image_url /= NoUrl}

\* C9: a GET on every URL emitted in an iteration or complete frame returns
\* 200 with the bytes of the file at the reported image_path and the
\* content type of its extension.
C9_EmittedUrlServesTheFile ==
    \A r \in Reqs : \A i \in UrlFrames(r) :
        LET e == events[r][i]
            resp == Get(e.image_url)
        IN  /\ resp.status = 200
            /\ Bytes(resp.file) = Bytes(Resolve(ReportedPath(r, e)))
            /\ resp.media = MediaOfFile(Name(ReportedPath(r, e)))

\* C10: two runs have distinct run directories, and when both emit a URL
\* for a file of the same name, each URL is served with the run's own file
\* and not with the other run's.
C10_RunsServeTheirOwnFile ==
    \A r1 \in Reqs : \A r2 \in Reqs \ {r1} :
        \A i \in UrlFrames(r1) : \A j \in UrlFrames(r2) :
            LET e1 == events[r1][i]
                e2 == events[r2][j]
            IN  Name(ReportedPath(r1, e1)) = Name(ReportedPath(r2, e2))
                  => /\ RunDir(r1) /= RunDir(r2)
                     /\ Get(e1.image_url).file = Resolve(ReportedPath(r1, e1))
                     /\ Get(e1.image_url).file /= Resolve(ReportedPath(r2, e2))

\* ------------------------------------------- properties of the functions
\* The output root, absolute.
OutputsRoot == Join(Cwd, <<"outputs">>)

\* C11: whatever path is requested, the image endpoint serves no file that
\* lies outside the output root.
C11_ServesOnlyUnderRoot ==
    (probe.op = "image" /\ probe.out.status = 200)
        => IsPrefix(OutputsRoot, probe.out.file)

\* A request path of the form run/filename, both plain names, for which no
\* file of that name exists anywhere under the output root.
NoSuchArtifact(path) ==
    /\ Len(path) = 2
    /\ \A i \in 1..2 : path[i] \notin {"/", ".."}
    /\ ~\E f \in Files : IsPrefix(OutputsRoot, f) /\ Name(f) = path[2]

RECURSIVE Split(_, _)
Split(chars, line) ==
    IF chars = <<>> THEN <<line>>
    ELSE IF Head(chars) = NL THEN <<line>> \o Split(Tail(chars), <<>>)
    ELSE Split(Tail(chars), Append(line, Head(chars)))

\* A JSON parser's reading of the inside of a string literal.
RECURSIVE Unescape(_)
Unescape(chars) ==
    IF chars = <<>> THEN <<>>
    ELSE IF Head(chars) = BSLASH /\ Len(chars) >= 2
         THEN <<IF chars[2] = "n" THEN NL ELSE chars[2]>> \o Unescape(Tail(Tail(chars)))
         ELSE <<Head(chars)>> \o Unescape(Tail(chars))

\* The text a client reads out of a data line 'data: {"message": "..."}',
\* or Malformed when the line is not of that form.
Malformed == <<"malformed">>

ParseData(line) ==
    IF /\ Len(line) >= 10
       /\ SubSeq(line, 1, 8) = <<"data: ", "{", QUOTE, "message", QUOTE, ":", " ", QUOTE>>
       /\ SubSeq(line, Len(line) - 1, Len(line)) = <<QUOTE, "}">>
    THEN Unescape(SubSeq(line, 9, Len(line) - 2))
    ELSE Malformed

\* C13: for every event kind and payload text, the frame is the event line,
\* one data line and a blank line ending it; the data line holds no raw
\* newline, and parsing its JSON gives the payload back.
C13_FrameIsThreeLines ==
    probe.op = "sse" =>
        LET lines == Split(probe.out, <<>>) IN
        /\ Len(lines) = 4
        /\ lines[1] = <<"event: ", probe.arg[1]>>
        /\ ParseData(lines[2]) = probe.arg[2]
        /\ lines[3] = <<>>
        /\ lines[4] = <<>>

\* A payload made of the three characters JSON escapes.
C13_Witness ==
    /\ probe.op = "sse"
    /\ probe.arg = <<"iteration", <<NL, QUOTE, BSLASH>> >>

\* C18: _to_image_url(p) is None when nothing exists at p; when p names a
\* file under the outputs root, the result is a /api/images/ URL whose path
\* the image endpoint resolves to exactly that file.
C18_UrlRoundTrip ==
    probe.op = "url" =>
        /\ ~Exists(probe.arg) => probe.out = NoUrl
        /\ (Resolve(probe.arg) \in Files /\ IsPrefix(OutputsRoot, Resolve(probe.arg)))
              => /\ probe.out /= NoUrl
                 /\ Head(probe.out) = ImagesRoute
                 /\ Get(probe.out).status = 200
                 /\ Get(probe.out).file = Resolve(probe.arg)

\* ---------------------------------------------- more properties of streams
\* C14: the first frame of every stream is a status event, so it precedes
\* every iteration, keepalive and terminal frame, however fast the pipeline
\* calls back or fails.
C14_StatusFirst ==
    \A r \in Reqs :
        events[r] /= <<>> =>
            /\ events[r][1].kind = "status"
            /\ events[r][1].message = "Initializing pipeline..."

\* A pipeline that failed at once: two status frames, then the error.
C14_Witness ==
    \E r \in Reqs :
        /\ task[r] = "raised"
        /\ pushed[r] = 0
        /\ Len(events[r]) = 3
        /\ Last(events[r]).kind = "error"

\* The positions of the complete frames of r.
Completes(r) == {i \in 1..Len(events[r]) : events[r][i].kind = "complete"}

C16_KeepaliveOnlyWhileRunning ==
    [][\A r \in Reqs :
         /\ (Len(events'[r]) > Len(events[r]) /\ Last(events'[r]).kind = "keepalive")
              => /\ pc[r] = "timedout"
                 /\ ~Done(r)
                 /\ Head(Split(KeepaliveFrame, <<>>)) = <<": keepalive">>
         /\ (pc[r] = "waiting" /\ pc'[r] = "timedout") => queue[r] = <<>>
         /\ (pc[r] = "timedout" /\ Done(r) /\ pc'[r] \notin {"timedout", "closed"})
              => /\ pc'[r] \in {"y_complete", "y_error"}
                 /\ IsTerminal(Last(events'[r]))]_vars

\* A stream that sent a keepalive and later left the loop from the timeout
\* branch.
C16_Witness ==
    \E r \in Reqs :
        /\ KeepalivesOf(r) > 0
        /\ pc[r] = "done"
        /\ events[r][Len(events[r]) - 1].kind = "keepalive"

\* C17: tearing the generator down leaves the task, the queue and the
\* frames as they are; afterwards the stream stays closed and carries no
\* further frame, while the task goes on by its own steps only.
C17_TeardownLeavesTask ==
    [][\A r \in Reqs :
         /\ (pc[r] /= "closed" /\ pc'[r] = "closed")
              => /\ task'[r] = task[r]
                 /\ queue'[r] = queue[r]
                 /\ events'[r] = events[r]
         /\ pc[r] = "closed"
              => /\ pc'[r] = "closed"
                 /\ events'[r] = events[r]
                 /\ Len(queue'[r]) >= Len(queue[r])]_vars

\* A stream closed before any iteration frame, whose task then queued all
\* its records and returned.
C17_Witness ==
    \E r \in Reqs :
        /\ pc[r] = "closed"
        /\ task[r] = "returned"
        /\ IterationNumbers(r) = <<>>
        /\ Len(queue[r]) = 2

\* C19: a stream that was not torn down and has emitted its terminal frame
\* after the task was created has a finished task.
C19_TerminalOnlyAfterTaskDone ==
    \A r \in Reqs :
        (task[r] /= "none" /\ pc[r] \in {"y_complete", "y_error", "done"})
            => Done(r)

\* C20: while the task is unfinished, every frame the stream emits is a
\* status, an iteration or a keepalive, and the stream does not end.
C20_NoEndWhileTaskRuns ==
    [][\A r \in Reqs :
         task[r] = "running" =>
            /\ pc'[r] /= "done"
            /\ Len(events'[r]) > Len(events[r])
                  => Last(events'[r]).kind \in {"status", "iteration", "keepalive"}]_vars

====
